---- MODULE Spec2Model ----
(***************************************************************************)
(* Field-of-view engine of gamik (src/src/fov/mod.rs): recursive          *)
(* shadowcasting (compute_fov / cast_light / transform_octant), the       *)
(* per-player tri-state VisibilityGrid, build_awareness and PlayerFov.    *)
(*                                                                         *)
(* Tiles are pairs <<x, y>> of integers.  The f64 slopes of cast_light     *)
(* are quotients of two odd integers of magnitude below 2^31; they are    *)
(* modelled as exact fractions [n, d] with d > 0.  IEEE division is       *)
(* correctly rounded and monotone, and two distinct such quotients differ *)
(* by far more than one ulp, so every comparison of the code agrees with  *)
(* the comparison of the exact fractions.                                 *)
(***************************************************************************)
EXTENDS Integers, Sequences, FiniteSets, TLC

VARIABLES
    \* A call of compute_fov
    origin,      \* the origin argument
    radius,      \* the radius argument
    opaque,      \* the tiles for which is_opaque answers true
    visible,     \* the returned set
    pc,          \* "start" before the call, "done" after it
    \* A VisibilityGrid and the calls of update on it
    grid,        \* VisibilityGrid.tiles: stored tile -> TileVisibility
    fov_set,     \* the argument of the last update
    grid_before, \* VisibilityGrid.tiles before the last update
    updates,     \* number of update calls so far
    \* The PlayerFovMap, the entity snapshot and the calls of recompute
    players,     \* player id -> PlayerFov
    entities,    \* the EntityMap snapshot: entity id -> Entity
    last_call,   \* the arguments of the last recompute, or NoCall
    ticks,       \* number of recompute calls and snapshot changes so far
    new_radius,  \* player id -> the radius given to PlayerFov::new
    \* A call of build_awareness
    aw_fov,      \* the fov_set argument
    aw_entities, \* the entities argument
    aw_margin,   \* the margin argument
    aw_pos,      \* the player_pos argument
    aware,       \* the returned Vec<AwareEntity>
    aw_pc,       \* "start" before the call, "done" after it
    \* A GameState and the calls of apply on it
    state,        \* the GameState: entity_gen, entities, world_name
    state_before, \* the GameState before the last apply
    game_call,    \* the arguments and the returned events of the last apply
    issued,       \* the ids returned by spawn_player so far, in order
    steps         \* number of apply calls so far

fovVars == <<origin, radius, opaque, visible, pc>>
gridVars == <<grid, fov_set, grid_before, updates>>
playerVars == <<players, entities, last_call, ticks, new_radius>>
awareVars == <<aw_fov, aw_entities, aw_margin, aw_pos, aware, aw_pc>>
gameVars == <<state, state_before, game_call, issued, steps>>

vars == <<origin, radius, opaque, visible, pc,
          grid, fov_set, grid_before, updates,
          players, entities, last_call, ticks, new_radius,
          aw_fov, aw_entities, aw_margin, aw_pos, aware, aw_pc,
          state, state_before, game_call, issued, steps>>

-----------------------------------------------------------------------------
(* Bounds of the model *)

\* Largest radius explored on the open field (no opaque tile).
MaxOpenRadius == 10
\* Largest radius explored with a single opaque tile, or with every tile opaque.
MaxPillarRadius == 5
\* Largest radius explored with up to MaxOpaque opaque tiles.
MaxRadius == 2
\* Largest number of opaque tiles placed freely around the origin.
MaxOpaque == 2

\* Origins the shadowcast is run from.
Origins == {<<0, 0>>, <<5, 5>>}

-----------------------------------------------------------------------------
(* Slopes *)

Abs(x) == IF x < 0 THEN -x ELSE x

\* The f64 value n / d, kept as a fraction with a positive denominator.
Ratio(n, d) == IF d > 0 THEN [n |-> n, d |-> d] ELSE [n |-> -n, d |-> -d]

SlopeLt(a, b) == a.n * b.d < b.n * a.d

\* f64::round of the fraction a / b (b > 0): half away from zero.
RoundHalfAway(a, b) ==
    IF a >= 0 THEN (2 * a + b) \div (2 * b)
    ELSE -((2 * (-a) + b) \div (2 * b))

\* ((-j as f64) * start_slope + 0.5).round() as i32
col_min_of(j, s) == RoundHalfAway(s.d - 2 * j * s.n, 2 * s.d)

\* (dx as f64 - 0.5) / (dy as f64 + 0.5)
l_slope_of(dx, dy) == Ratio(2 * dx - 1, 2 * dy + 1)

\* (dx as f64 + 0.5) / (dy as f64 - 0.5)
r_slope_of(dx, dy) == Ratio(2 * dx + 1, 2 * dy - 1)

-----------------------------------------------------------------------------
(* Shadowcasting *)

\* Map octant-local (col, row) offsets into world (dx, dy).
transform_octant(col, row, octant) ==
    CASE octant = 0 -> <<col, row>>
      [] octant = 1 -> <<row, col>>
      [] octant = 2 -> <<row, -col>>
      [] octant = 3 -> <<col, -row>>
      [] octant = 4 -> <<-col, -row>>
      [] octant = 5 -> <<-row, -col>>
      [] octant = 6 -> <<-row, col>>
      [] OTHER      -> <<-col, row>>

\* One ShadowcastParams value.
ShadowcastParams(ox, oy, r, row, start_slope, end_slope, octant) ==
    [ox |-> ox, oy |-> oy, radius |-> r, row |-> row,
     start_slope |-> start_slope, end_slope |-> end_slope, octant |-> octant]

\* The frame of one cast_light invocation: the shared visible set, the log of
\* the recursive calls issued so far, and the invocation's mutable locals.
Frame(acc, params) ==
    [visible |-> acc.visible, calls |-> acc.calls,
     start_slope |-> params.start_slope,
     next_start_slope |-> params.start_slope,
     prev_blocked |-> FALSE, blocked |-> FALSE]

\* Mutant of InsertIfInRadius: the radius test is strict.
InsertIfInsideRadius(st, dx, dy, r, w) ==
    IF dx * dx + dy * dy < r * r
    THEN [st EXCEPT !.visible = @ \cup {w}]
    ELSE st

\* Mutant of InsertIfInRadius: every scanned cell is inserted (square view).
InsertAlways(st, dx, dy, r, w) == [st EXCEPT !.visible = @ \cup {w}]

\* visible.insert((wx, wy)) when the cell is within the circular radius.
InsertIfInRadius(st, dx, dy, r, w) ==
    IF dx * dx + dy * dy <= r * r
    THEN [st EXCEPT !.visible = @ \cup {w}]
    ELSE st

\* Mutant of RecurseParams: the far bound is not narrowed.
RecurseParamsWide(params, j, start_slope, l_slope) ==
    ShadowcastParams(params.ox, params.oy, params.radius, j + 1,
                     start_slope, params.end_slope, params.octant)

\* Mutant of RecurseParams: the call skips a row.
RecurseParamsSkipRow(params, j, start_slope, l_slope) ==
    ShadowcastParams(params.ox, params.oy, params.radius, j + 2,
                     start_slope, l_slope, params.octant)

\* The ShadowcastParams of the recursive call issued at a blocking cell of
\* row j: the next row, the same start bound, the far bound narrowed to the
\* cell's left slope.
RecurseParams(params, j, start_slope, l_slope) ==
    ShadowcastParams(params.ox, params.oy, params.radius, j + 1,
                     start_slope, l_slope, params.octant)

\* Mutant of MayRecurse: a blocking cell of the last row recurses too.
MayRecurseAlways(params, j) == TRUE

\* The `j < radius` half of the test `is_opaque(wx, wy) && j < radius`.
MayRecurse(params, j) == j < params.radius

RECURSIVE cast_light(_, _, _)
RECURSIVE ScanRows(_, _, _, _)
RECURSIVE ScanCols(_, _, _, _, _)

\* The `while dx <= 0` loop of row j, from column dx on.
ScanCols(st, is_opaque, params, j, dx) ==
    IF dx > 0 THEN st
    ELSE
    LET dy == -j
        m  == transform_octant(dx, dy, params.octant)
        w  == <<params.ox + m[1], params.oy + m[2]>>
        l_slope == l_slope_of(dx, dy)
        r_slope == r_slope_of(dx, dy)
        st1 == InsertIfInRadius(st, dx, dy, params.radius, w)
        sub == RecurseParams(params, j, st1.start_slope, l_slope)
        call == [params |-> sub, caller |-> params, caller_row |-> params.row,
                 j |-> j, dx |-> dx]
        acc == cast_light([visible |-> st1.visible,
                           calls |-> Append(st1.calls, call)],
                          is_opaque, sub)
    IN  CASE SlopeLt(st.start_slope, r_slope) ->
               \* the cell is before the wedge: dx += 1; continue
               ScanCols(st, is_opaque, params, j, dx + 1)
          [] ~SlopeLt(st.start_slope, r_slope)
             /\ SlopeLt(l_slope, params.end_slope) ->
               \* the cell is past the wedge: break
               st
          [] ~SlopeLt(st.start_slope, r_slope)
             /\ ~SlopeLt(l_slope, params.end_slope)
             /\ st1.prev_blocked /\ w \in is_opaque ->
               ScanCols([st1 EXCEPT !.next_start_slope = r_slope],
                        is_opaque, params, j, dx + 1)
          [] ~SlopeLt(st.start_slope, r_slope)
             /\ ~SlopeLt(l_slope, params.end_slope)
             /\ st1.prev_blocked /\ w \notin is_opaque ->
               ScanCols([st1 EXCEPT !.prev_blocked = FALSE,
                                    !.start_slope = st1.next_start_slope],
                        is_opaque, params, j, dx + 1)
          [] ~SlopeLt(st.start_slope, r_slope)
             /\ ~SlopeLt(l_slope, params.end_slope)
             /\ ~st1.prev_blocked /\ w \in is_opaque /\ MayRecurse(params, j) ->
               ScanCols([st1 EXCEPT !.visible = acc.visible,
                                    !.calls = acc.calls,
                                    !.blocked = TRUE,
                                    !.next_start_slope = r_slope],
                        is_opaque, params, j, dx + 1)
          [] OTHER ->
               ScanCols(st1, is_opaque, params, j, dx + 1)

\* The `for j in row..=radius` loop, from row j on.
ScanRows(st, is_opaque, params, j) ==
    IF j > params.radius THEN st
    ELSE
    LET st1 == ScanCols([st EXCEPT !.blocked = FALSE], is_opaque, params, j,
                        col_min_of(j, st.start_slope))
    IN  IF st1.blocked
        THEN st1
        ELSE ScanRows([st1 EXCEPT !.prev_blocked = st1.blocked],
                      is_opaque, params, j + 1)

\* Recursive shadowcasting for a single octant.  acc = [visible, calls]:
\* the set the call inserts into and the log of the recursive calls so far.
cast_light(acc, is_opaque, params) ==
    IF SlopeLt(params.start_slope, params.end_slope) \/ params.row > params.radius
    THEN acc
    ELSE LET st == ScanRows(Frame(acc, params), is_opaque, params, params.row)
         IN  [visible |-> st.visible, calls |-> st.calls]

\* The top-level cast_light call of compute_fov for one octant.  cast_light
\* only inserts into the visible set and never reads it, so each octant is
\* run on an empty set and the eight results are merged by compute_fov.
CastOctant(o, r, is_opaque, octant) ==
    cast_light([visible |-> {}, calls |-> <<>>], is_opaque,
               ShadowcastParams(o[1], o[2], r, 1, Ratio(1, 1), Ratio(0, 1), octant))

\* Mutant of compute_fov: the origin is not inserted.
compute_fov_without_origin(o, r, is_opaque) ==
    UNION {CastOctant(o, r, is_opaque, octant).visible : octant \in 0..7}

\* Mutant of compute_fov: opaque tiles are not reported as visible.
compute_fov_hiding_opaque(o, r, is_opaque) ==
    ({o} \cup UNION {CastOctant(o, r, is_opaque, octant).visible : octant \in 0..7})
    \ (is_opaque \ {o})

\* compute_fov: the origin is inserted, then the octants 0..7 are processed.
\* is_opaque is the set of tiles on which the opacity predicate answers true.
compute_fov(o, r, is_opaque) ==
    {o} \cup UNION {CastOctant(o, r, is_opaque, octant).visible : octant \in 0..7}

\* The recursive cast_light calls issued during compute_fov, octant by octant.
compute_fov_calls(o, r, is_opaque) ==
    CastOctant(o, r, is_opaque, 0).calls \o CastOctant(o, r, is_opaque, 1).calls
    \o CastOctant(o, r, is_opaque, 2).calls \o CastOctant(o, r, is_opaque, 3).calls
    \o CastOctant(o, r, is_opaque, 4).calls \o CastOctant(o, r, is_opaque, 5).calls
    \o CastOctant(o, r, is_opaque, 6).calls \o CastOctant(o, r, is_opaque, 7).calls

-----------------------------------------------------------------------------
(* compute_fov applied to bounded inputs *)

\* Tiles whose offset from o is at most r on both axes.
Window(o, r) == {<<o[1] + dx, o[2] + dy>> : dx \in -r..r, dy \in -r..r}

\* Subsets of S with at most n elements.
RECURSIVE SubsetsUpTo(_, _)
SubsetsUpTo(S, n) ==
    IF n = 0 THEN {{}}
    ELSE LET smaller == SubsetsUpTo(S, n - 1)
         IN  smaller \cup {T \cup {x} : T \in smaller, x \in S}


-----------------------------------------------------------------------------
(* VisibilityGrid *)

\* VisibilityGrid::default(): no tile stored.
EmptyGrid == [p \in {} |-> "Unexplored"]

\* VisibilityGrid::get: the stored state, Unexplored for an absent entry.
get(tiles, pos) == IF pos \in DOMAIN tiles THEN tiles[pos] ELSE "Unexplored"

\* Mutant of update: the map is rebuilt from the new set alone.
update_rebuild(tiles, new_fov) == [p \in new_fov |-> "Visible"]

\* Mutant of update: entries that were already Remembered are pruned.
update_prune(tiles, new_fov) ==
    [p \in {q \in DOMAIN tiles : tiles[q] = "Visible"} \cup new_fov |->
        IF p \in new_fov THEN "Visible" ELSE "Remembered"]

\* Mutant of update: stored Visible entries are not demoted.
update_no_demote(tiles, new_fov) ==
    [p \in (DOMAIN tiles) \cup new_fov |->
        IF p \in new_fov THEN "Visible" ELSE tiles[p]]

\* Mutant of update: the new set is inserted first, then every Visible
\* entry is demoted.
update_promote_first(tiles, new_fov) ==
    [p \in (DOMAIN tiles) \cup new_fov |->
        IF p \in new_fov \/ tiles[p] = "Visible" THEN "Remembered" ELSE tiles[p]]

\* VisibilityGrid::update: demote every stored Visible entry to Remembered,
\* then insert Visible for every tile of the new set.
update(tiles, new_fov) ==
    LET demoted == [p \in DOMAIN tiles |->
                       IF tiles[p] = "Visible" THEN "Remembered" ELSE tiles[p]]
    IN  [p \in (DOMAIN tiles) \cup new_fov |->
            IF p \in new_fov THEN "Visible" ELSE demoted[p]]

-----------------------------------------------------------------------------
(* Entities and the opaque set *)

\* One Entity of the snapshot.
Entity(position, name, entity_type) ==
    [position |-> position, name |-> name, entity_type |-> entity_type]

\* EntityType::blocks_sight: a tree blocks line of sight, a player does not.
blocks_sight(entity_type) == entity_type = "Tree"

\* Mutant of opaque_positions: the blocks_sight filter is missing.
opaque_positions_unfiltered(ents) ==
    {ents[id].position : id \in DOMAIN ents}

\* Collect positions of all entities that block line of sight.
opaque_positions(ents) ==
    {ents[id].position :
        id \in {i \in DOMAIN ents : blocks_sight(ents[i].entity_type)}}

\* Compute FOV for a player at o using the entity map.
compute_fov_from_entities(o, r, ents) ==
    compute_fov(o, r, opaque_positions(ents))

-----------------------------------------------------------------------------
(* PlayerFov *)

\* Mutant of PlayerFov_new: the derived Default value, the argument unused.
PlayerFov_default(r) ==
    [visibility |-> EmptyGrid, current_fov |-> {}, fov_radius |-> 0]

\* PlayerFov::new(radius)
PlayerFov_new(r) ==
    [visibility |-> EmptyGrid, current_fov |-> {}, fov_radius |-> r]

\* Mutant of recompute: the new tiles are added to the previous current_fov.
recompute_keep_old(pf, o, ents) ==
    LET new_fov == pf.current_fov
                   \cup compute_fov_from_entities(o, pf.fov_radius, ents)
    IN  [visibility |-> update(pf.visibility, new_fov),
         current_fov |-> new_fov,
         fov_radius |-> pf.fov_radius]

\* Mutant of recompute: the grid is updated before current_fov is replaced.
recompute_grid_first(pf, o, ents) ==
    [visibility |-> update(pf.visibility, pf.current_fov),
     current_fov |-> compute_fov_from_entities(o, pf.fov_radius, ents),
     fov_radius |-> pf.fov_radius]

\* PlayerFov::recompute: replace current_fov, then update the owned grid.
recompute(pf, o, ents) ==
    LET new_fov == compute_fov_from_entities(o, pf.fov_radius, ents)
    IN  [visibility |-> update(pf.visibility, new_fov),
         current_fov |-> new_fov,
         fov_radius |-> pf.fov_radius]

-----------------------------------------------------------------------------
(* Awareness *)

\* Default field-of-view radius in tiles.
DEFAULT_FOV_RADIUS == 12
\* Extra margin beyond the FOV radius used for network transmission.
FOV_NETWORK_MARGIN == 2

\* Mutant of in_margin_of: one axis within the window is enough.
in_margin_either_axis(p, margin, player_pos) ==
    LET dx == Abs(p[1] - player_pos[1])
        dy == Abs(p[2] - player_pos[2])
    IN  dx <= DEFAULT_FOV_RADIUS + margin \/ dy <= DEFAULT_FOV_RADIUS + margin

\* in_margin: within DEFAULT_FOV_RADIUS + margin of the player on both axes.
in_margin_of(p, margin, player_pos) ==
    LET dx == Abs(p[1] - player_pos[1])
        dy == Abs(p[2] - player_pos[2])
    IN  dx <= DEFAULT_FOV_RADIUS + margin /\ dy <= DEFAULT_FOV_RADIUS + margin

\* Mutant of is_aware: membership in the visible set is not consulted.
is_aware_margin_only(new_fov, p, margin, player_pos) ==
    in_margin_of(p, margin, player_pos)

\* Mutant of is_aware: only the visible set counts.
is_aware_fov_only(new_fov, p, margin, player_pos) == p \in new_fov

\* in_fov || in_margin: whether build_awareness pushes the entity at p.
is_aware(new_fov, p, margin, player_pos) ==
    p \in new_fov \/ in_margin_of(p, margin, player_pos)

\* The AwareEntity pushed for entity eid.
AwareEntity(eid, p) == [entity_id |-> eid, position |-> p, source |-> "Sight"]

\* Mutant of build_awareness: an entity is pushed once for in_fov and once
\* for in_margin.
build_awareness_per_test(new_fov, ents, margin, player_pos, order) ==
    LET InFov(eid) == ents[eid].position \in new_fov
        InMargin(eid) == in_margin_of(ents[eid].position, margin, player_pos)
        kept == SelectSeq(order, InFov) \o SelectSeq(order, InMargin)
    IN  [i \in 1..Len(kept) |-> AwareEntity(kept[i], ents[kept[i]].position)]

\* build_awareness; order is the sequence in which the hash map yields the
\* entity ids.
build_awareness(new_fov, ents, margin, player_pos, order) ==
    LET Pushed(eid) == is_aware(new_fov, ents[eid].position, margin, player_pos)
        kept == SelectSeq(order, Pushed)
    IN  [i \in 1..Len(kept) |-> AwareEntity(kept[i], ents[kept[i]].position)]

\* Every order in which a hash map with the key set S can be iterated.
IterationOrders(S) ==
    {f \in [1..Cardinality(S) -> S] :
        \A i, j \in 1..Cardinality(S) : i # j => f[i] # f[j]}

-----------------------------------------------------------------------------
(* GameState, move_entity, spawn_player, apply *)

\* The limits of i32.
I32_MAX == 2147483647
I32_MIN == -2147483647 - 1

\* i32::saturating_add
saturating_add(a, b) ==
    IF b > 0 /\ a > I32_MAX - b THEN I32_MAX
    ELSE IF b < 0 /\ a < I32_MIN - b THEN I32_MIN
    ELSE a + b

\* Direction::delta
delta(direction) ==
    CASE direction = "Up" -> <<0, -1>>
      [] direction = "Down" -> <<0, 1>>
      [] direction = "Left" -> <<-1, 0>>
      [] direction = "Right" -> <<1, 0>>

\* EntityType::blocks_movement: a tree blocks movement, a player does not.
blocks_movement(entity_type) == entity_type = "Tree"

\* EntityGenerator::next_id: the generator counts the ids it has issued and
\* returns the next one.
next_id(entity_gen) == [entity_gen |-> entity_gen + 1, id |-> entity_gen + 1]

GameState(entity_gen, ents, world_name) ==
    [entity_gen |-> entity_gen, entities |-> ents, world_name |-> world_name]

\* tests::empty_state
empty_state == GameState(0, <<>>, "test")

\* create_test_world: the positions of the trees, in insertion order.
tree_positions ==
    << <<5, 5>>, <<15, 5>>, <<5, 15>>, <<15, 15>>, <<10, 5>>, <<10, 15>> >>

\* The `for pos in tree_positions` loop of create_test_world, from tree i on.
RECURSIVE InsertTrees(_, _)
InsertTrees(st, i) ==
    IF i > Len(tree_positions) THEN st
    ELSE LET n == next_id(st.entity_gen)
             tree == Entity(tree_positions[i], "None", "Tree")
         IN  InsertTrees(
                 [st EXCEPT
                    !.entity_gen = n.entity_gen,
                    !.entities = [id \in (DOMAIN st.entities) \cup {n.id} |->
                                     IF id = n.id THEN tree ELSE st.entities[id]]],
                 i + 1)

\* GameState::create_test_world(name)
create_test_world(name) == InsertTrees(GameState(0, <<>>, name), 1)

\* Mutant of move_entity: the destination is not checked for blockers.
move_entity_unchecked(st, entity_id, direction) ==
    IF entity_id \notin DOMAIN st.entities THEN st
    ELSE
    LET entity == st.entities[entity_id]
        d == delta(direction)
        new_pos == <<saturating_add(entity.position[1], d[1]),
                     saturating_add(entity.position[2], d[2])>>
    IN  [st EXCEPT !.entities[entity_id].position = new_pos]

\* Mutant of move_entity: an id that is not in the map gets a default entry.
move_entity_or_insert(st, entity_id, direction) ==
    LET ents == [id \in (DOMAIN st.entities) \cup {entity_id} |->
                    IF id \in DOMAIN st.entities THEN st.entities[id]
                    ELSE Entity(<<0, 0>>, "None", "Player")]
        entity == ents[entity_id]
        d == delta(direction)
        new_pos == <<saturating_add(entity.position[1], d[1]),
                     saturating_add(entity.position[2], d[2])>>
        blocked == \E id \in DOMAIN ents :
                      /\ ents[id].position = new_pos
                      /\ blocks_movement(ents[id].entity_type)
    IN  IF blocked THEN [st EXCEPT !.entities = ents]
        ELSE [st EXCEPT !.entities = [ents EXCEPT ![entity_id].position = new_pos]]

\* Mutant of move_entity: the entity at the destination is displaced instead
\* of being left alone.
move_entity_swap(st, entity_id, direction) ==
    IF entity_id \notin DOMAIN st.entities THEN st
    ELSE
    LET entity == st.entities[entity_id]
        d == delta(direction)
        new_pos == <<saturating_add(entity.position[1], d[1]),
                     saturating_add(entity.position[2], d[2])>>
        blocked == \E id \in DOMAIN st.entities :
                      /\ st.entities[id].position = new_pos
                      /\ blocks_movement(st.entities[id].entity_type)
    IN  IF blocked THEN st
        ELSE [st EXCEPT !.entities =
                [id \in DOMAIN st.entities |->
                    IF id = entity_id THEN [entity EXCEPT !.position = new_pos]
                    ELSE IF st.entities[id].position = new_pos
                         THEN [st.entities[id] EXCEPT !.position = entity.position]
                         ELSE st.entities[id]]]

\* Mutant of move_entity: only players block the destination.
move_entity_players_block(st, entity_id, direction) ==
    IF entity_id \notin DOMAIN st.entities THEN st
    ELSE
    LET entity == st.entities[entity_id]
        d == delta(direction)
        new_pos == <<saturating_add(entity.position[1], d[1]),
                     saturating_add(entity.position[2], d[2])>>
        blocked == \E id \in DOMAIN st.entities :
                      /\ st.entities[id].position = new_pos
                      /\ st.entities[id].entity_type = "Player"
    IN  IF blocked THEN st
        ELSE [st EXCEPT !.entities[entity_id].position = new_pos]

\* move_entity: the GameState after the call.
move_entity(st, entity_id, direction) ==
    IF entity_id \notin DOMAIN st.entities THEN st
    ELSE
    LET entity == st.entities[entity_id]
        d == delta(direction)
        new_pos == <<saturating_add(entity.position[1], d[1]),
                     saturating_add(entity.position[2], d[2])>>
        blocked == \E id \in DOMAIN st.entities :
                      /\ st.entities[id].position = new_pos
                      /\ blocks_movement(st.entities[id].entity_type)
    IN  IF blocked THEN st
        ELSE [st EXCEPT !.entities[entity_id].position = new_pos]

\* Mutant of spawn_player: the id is read from the generator before it is
\* advanced.
spawn_player_stale_id(st, name) ==
    LET n == next_id(st.entity_gen)
        new == Entity(<<10, 10>>, name, "Player")
    IN  [state |-> [st EXCEPT
                      !.entity_gen = n.entity_gen,
                      !.entities = [id \in (DOMAIN st.entities) \cup {st.entity_gen} |->
                                       IF id = st.entity_gen THEN new
                                       ELSE st.entities[id]]],
         id |-> st.entity_gen]

\* spawn_player: the GameState after the call and the returned id.
spawn_player(st, name) ==
    LET n == next_id(st.entity_gen)
        new == Entity(<<10, 10>>, name, "Player")
    IN  [state |-> [st EXCEPT
                      !.entity_gen = n.entity_gen,
                      !.entities = [id \in (DOMAIN st.entities) \cup {n.id} |->
                                       IF id = n.id THEN new ELSE st.entities[id]]],
         id |-> n.id]

\* Mutant of apply: a Move that changed nothing reports no event.
apply_silent_when_unmoved(st, entity_id, action) ==
    CASE action.kind = "Move" ->
            LET after == move_entity(st, entity_id, action.direction)
            IN  [state |-> after,
                 events |-> IF after = st THEN <<>>
                            ELSE <<[kind |-> "EntityMoved", entity_id |-> entity_id]>>]
      [] action.kind = "SpawnPlayer" ->
            LET r == spawn_player(st, action.name)
            IN  [state |-> r.state,
                 events |-> <<[kind |-> "PlayerSpawned", entity_id |-> r.id]>>]
      [] action.kind = "SpawnAs" ->
            [state |-> st,
             events |-> <<[kind |-> "SpawnAsRequested", entity_id |-> action.eid]>>]
      [] action.kind = "SaveWorld" ->
            [state |-> st, events |-> <<[kind |-> "SaveRequested"]>>]

\* apply: the GameState after the call and the returned events.
apply(st, entity_id, action) ==
    CASE action.kind = "Move" ->
            [state |-> move_entity(st, entity_id, action.direction),
             events |-> <<[kind |-> "EntityMoved", entity_id |-> entity_id]>>]
      [] action.kind = "SpawnPlayer" ->
            LET r == spawn_player(st, action.name)
            IN  [state |-> r.state,
                 events |-> <<[kind |-> "PlayerSpawned", entity_id |-> r.id]>>]
      [] action.kind = "SpawnAs" ->
            [state |-> st,
             events |-> <<[kind |-> "SpawnAsRequested", entity_id |-> action.eid]>>]
      [] action.kind = "SaveWorld" ->
            [state |-> st, events |-> <<[kind |-> "SaveRequested"]>>]

-----------------------------------------------------------------------------
(* Inputs of the explored calls *)

\* Largest number of update calls on the grid.
MaxUpdates == 4
\* Largest fov_radius a PlayerFov is created with.
MaxFovRadius == 2
\* Largest number of recompute calls and snapshot changes.
MaxTicks == 3
\* Largest number of entities in the snapshot given to build_awareness.
MaxEntities == 2
\* Largest margin given to build_awareness.
MaxMargin == 2

\* Largest number of apply calls on the GameState.
MaxSteps == 3

\* The GameStates the calls start from: the empty state; a world of three
\* spawned players, two of them moved, and two trees; a world whose player
\* stands on the corner of the i32 range.
GameWorlds ==
    { empty_state,
      GameState(5, [id \in 1..5 |->
                      CASE id = 1 -> Entity(<<5, 5>>, "P", "Player")
                        [] id = 2 -> Entity(<<6, 5>>, "None", "Tree")
                        [] id = 3 -> Entity(<<5, 4>>, "Q", "Player")
                        [] id = 4 -> Entity(<<10, 9>>, "None", "Tree")
                        [] id = 5 -> Entity(<<10, 10>>, "R", "Player")], "test"),
      GameState(2, [id \in 1..2 |->
                      CASE id = 1 -> Entity(<<I32_MAX, I32_MIN>>, "P", "Player")
                        [] id = 2 -> Entity(<<I32_MIN, I32_MAX>>, "Q", "Player")], "w") }
\* Directions of Move.
Directions == {"Up", "Down", "Left", "Right"}
\* Names given to SpawnPlayer.
PlayerNames == {"Alice", "Bob"}
\* An entity id that no GameState holds.
AbsentId == 999
\* The actions given to apply on the state st.
GameActions(st) ==
    {[kind |-> "Move", direction |-> d] : d \in Directions}
    \cup {[kind |-> "SpawnPlayer", name |-> n] : n \in PlayerNames}
    \cup {[kind |-> "SpawnAs", eid |-> e] : e \in (DOMAIN st.entities) \cup {AbsentId}}
    \cup {[kind |-> "SaveWorld"]}

\* Tiles given to VisibilityGrid::update.
GridTiles == {<<1, 2>>, <<0, 0>>, <<-1, 3>>}

\* Players with a PlayerFov.
PlayerIds == {1, 2}
\* Origins given to recompute.
PlayerOrigins == {<<0, 0>>, <<-1, 0>>}
\* Entity snapshots given to recompute (entity i of a snapshot has id i).
Snapshots ==
    { <<>>,
      <<Entity(<<1, 0>>, "None", "Tree"), Entity(<<0, 0>>, "Alice", "Player"),
        Entity(<<13, 0>>, "Bob", "Player")>>,
      <<Entity(<<0, -1>>, "None", "Tree"), Entity(<<-1, -1>>, "None", "Tree"),
        Entity(<<1, 0>>, "Bob", "Player")>> }

\* Positions of the entities given to build_awareness.
AwarePoints == {<<1, 0>>, <<14, 0>>, <<15, 3>>, <<-13, -14>>, <<0, -16>>}
\* Visible sets given to build_awareness.
AwareFovSets == SUBSET {<<1, 0>>, <<15, 3>>, <<0, -16>>}
\* Observer positions given to build_awareness.
AwareObservers == {<<0, 0>>, <<1, -1>>}
\* Snapshots given to build_awareness: ids 1..n, odd ids players, even ids trees.
AwareSnapshots ==
    UNION { { [i \in 1..n |->
                 Entity(pos[i], "None", IF i % 2 = 1 THEN "Player" ELSE "Tree")]
              : pos \in [1..n -> AwarePoints] }
            : n \in 0..MaxEntities }

NoCall == [player |-> 0, origin |-> <<0, 0>>, entities |-> <<>>]

FovIdle ==
    /\ origin = <<0, 0>> /\ radius = 0 /\ opaque = {} /\ visible = {}
    /\ pc = "idle"

GridIdle ==
    /\ grid = EmptyGrid /\ fov_set = {} /\ grid_before = EmptyGrid
    /\ updates = 0

PlayerIdle ==
    /\ players = [p \in {} |-> PlayerFov_new(0)]
    /\ entities = <<>> /\ last_call = NoCall /\ ticks = 0
    /\ new_radius = <<>>

AwareIdle ==
    /\ aw_fov = {} /\ aw_entities = <<>> /\ aw_margin = 0
    /\ aw_pos = <<0, 0>> /\ aware = <<>> /\ aw_pc = "idle"

NoApply == [entity_id |-> 0, action |-> [kind |-> "None"], events |-> <<>>]

GameIdle ==
    /\ state = empty_state /\ state_before = empty_state
    /\ game_call = NoApply /\ issued = <<>> /\ steps = 0

-----------------------------------------------------------------------------
(* compute_fov on bounded inputs *)

FovInit ==
    /\ origin \in Origins
    /\ \/ /\ radius \in 0..MaxOpenRadius
          /\ opaque = {}
       \/ /\ radius \in 0..MaxPillarRadius
          /\ \/ opaque \in {{t} : t \in Window(origin, radius)}
             \/ opaque = Window(origin, radius)
       \/ /\ radius \in 0..MaxRadius
          /\ opaque \in SubsetsUpTo(Window(origin, radius), MaxOpaque)
    /\ visible = {}
    /\ pc = "start"
    /\ GridIdle /\ PlayerIdle /\ AwareIdle /\ GameIdle

ComputeFov ==
    /\ pc = "start"
    /\ visible' = compute_fov(origin, radius, opaque)
    /\ pc' = "done"
    /\ UNCHANGED <<origin, radius, opaque>>
    /\ UNCHANGED <<gridVars, playerVars, awareVars, gameVars>>

SpecFov == FovInit /\ [][ComputeFov]_vars

-----------------------------------------------------------------------------
(* compute_fov with blocked rows, for the recursion of cast_light *)

\* Largest radius explored with the tiles of CastTiles opaque.
MaxCastRadius == 3

\* The tiles that may be opaque: rows 1 and 2 of octant 0 around o, one
\* diagonal tile and one tile on the east axis.
CastTiles(o) ==
    { <<o[1] - 1, o[2] - 1>>, <<o[1], o[2] - 1>>,
      <<o[1] - 2, o[2] - 2>>, <<o[1] - 1, o[2] - 2>>, <<o[1], o[2] - 2>>,
      <<o[1] + 1, o[2] + 1>>, <<o[1] + 2, o[2]>> }

CastInit ==
    /\ origin \in Origins
    /\ radius \in 0..MaxCastRadius
    /\ opaque \in SUBSET CastTiles(origin)
    /\ visible = {}
    /\ pc = "start"
    /\ GridIdle /\ PlayerIdle /\ AwareIdle /\ GameIdle

SpecCast == CastInit /\ [][ComputeFov]_vars

-----------------------------------------------------------------------------
(* A VisibilityGrid under arbitrary update calls *)

GridInit ==
    /\ grid = EmptyGrid
    /\ fov_set = {}
    /\ grid_before = EmptyGrid
    /\ updates = 0
    /\ FovIdle /\ PlayerIdle /\ AwareIdle /\ GameIdle

Update ==
    /\ updates < MaxUpdates
    /\ \E new_fov \in SUBSET GridTiles :
          /\ fov_set' = new_fov
          /\ grid' = update(grid, new_fov)
    /\ grid_before' = grid
    /\ updates' = updates + 1
    /\ UNCHANGED <<fovVars, playerVars, awareVars, gameVars>>

SpecGrid == GridInit /\ [][Update]_vars

-----------------------------------------------------------------------------
(* The per-player FOV pass over an entity snapshot *)

PlayerInit ==
    /\ \E radii \in [PlayerIds -> 0..MaxFovRadius] :
          /\ players = [p \in PlayerIds |-> PlayerFov_new(radii[p])]
          /\ new_radius = radii
    /\ entities \in Snapshots
    /\ last_call = NoCall
    /\ ticks = 0
    /\ FovIdle /\ GridIdle /\ AwareIdle /\ GameIdle

\* Mutant of Recompute: one grid is shared, so every player's grid receives
\* the update.
Recompute_shared_grid ==
    /\ ticks < MaxTicks
    /\ \E p \in DOMAIN players, o \in PlayerOrigins :
          /\ players' = [q \in DOMAIN players |->
                IF q = p THEN recompute(players[p], o, entities)
                ELSE [players[q] EXCEPT !.visibility =
                        update(@, compute_fov_from_entities(
                                      o, players[p].fov_radius, entities))]]
          /\ last_call' = [player |-> p, origin |-> o, entities |-> entities]
    /\ ticks' = ticks + 1
    /\ UNCHANGED <<entities, new_radius>>
    /\ UNCHANGED <<fovVars, gridVars, awareVars, gameVars>>

\* One player's recompute against the current snapshot.
Recompute ==
    /\ ticks < MaxTicks
    /\ \E p \in DOMAIN players, o \in PlayerOrigins :
          /\ players' = [players EXCEPT ![p] = recompute(players[p], o, entities)]
          /\ last_call' = [player |-> p, origin |-> o, entities |-> entities]
    /\ ticks' = ticks + 1
    /\ UNCHANGED <<entities, new_radius>>
    /\ UNCHANGED <<fovVars, gridVars, awareVars, gameVars>>

\* The world collaborator replaces the snapshot between FOV passes.
WorldTick ==
    /\ ticks < MaxTicks
    /\ entities' \in Snapshots \ {entities}
    /\ ticks' = ticks + 1
    /\ UNCHANGED <<players, last_call, new_radius>>
    /\ UNCHANGED <<fovVars, gridVars, awareVars, gameVars>>

PlayerNext == Recompute \/ WorldTick

SpecPlayer == PlayerInit /\ [][PlayerNext]_vars

-----------------------------------------------------------------------------
(* build_awareness on bounded inputs *)

AwareInit ==
    /\ aw_fov \in AwareFovSets
    /\ aw_entities \in AwareSnapshots
    /\ aw_margin \in 0..MaxMargin
    /\ aw_pos \in AwareObservers
    /\ aware = <<>>
    /\ aw_pc = "start"
    /\ FovIdle /\ GridIdle /\ PlayerIdle /\ GameIdle

BuildAwareness ==
    /\ aw_pc = "start"
    /\ \E order \in IterationOrders(DOMAIN aw_entities) :
          aware' = build_awareness(aw_fov, aw_entities, aw_margin, aw_pos, order)
    /\ aw_pc' = "done"
    /\ UNCHANGED <<aw_fov, aw_entities, aw_margin, aw_pos>>
    /\ UNCHANGED <<fovVars, gridVars, playerVars, gameVars>>

SpecAware == AwareInit /\ [][BuildAwareness]_vars

-----------------------------------------------------------------------------
(* compute_fov_from_entities on bounded snapshots *)

\* Largest radius given to compute_fov_from_entities.
MaxEntityRadius == 4
\* The entities a snapshot is drawn from, by id.
EntityPool ==
    [id \in 1..4 |->
        CASE id = 1 -> Entity(<<3, 0>>, "None", "Tree")
          [] id = 2 -> Entity(<<0, -2>>, "None", "Tree")
          [] id = 3 -> Entity(<<1, 0>>, "Alice", "Player")
          [] id = 4 -> Entity(<<0, -1>>, "Bob", "Player")]
\* Every EntityMap holding some of the pool's entities.
EntityMaps == {[id \in ids |-> EntityPool[id]] : ids \in SUBSET DOMAIN EntityPool}
\* Origins given to compute_fov_from_entities.
EntityOrigins == {<<0, 0>>, <<1, 1>>}

EntitiesInit ==
    /\ origin \in EntityOrigins
    /\ radius \in 0..MaxEntityRadius
    /\ entities \in EntityMaps
    /\ opaque = {} /\ visible = {} /\ pc = "start"
    /\ players = <<>> /\ new_radius = <<>> /\ last_call = NoCall /\ ticks = 0
    /\ GridIdle /\ AwareIdle /\ GameIdle

\* One call; opaque records the set the is_opaque closure answers from.
ComputeFovFromEntities ==
    /\ pc = "start"
    /\ opaque' = opaque_positions(entities)
    /\ visible' = compute_fov_from_entities(origin, radius, entities)
    /\ pc' = "done"
    /\ UNCHANGED <<origin, radius>>
    /\ UNCHANGED <<gridVars, playerVars, awareVars, gameVars>>

SpecEntities == EntitiesInit /\ [][ComputeFovFromEntities]_vars

-----------------------------------------------------------------------------
(* Players registered for perception tracking one at a time *)

RegisterInit ==
    /\ players = <<>>
    /\ new_radius = <<>>
    /\ entities \in Snapshots
    /\ last_call = NoCall
    /\ ticks = 0
    /\ FovIdle /\ GridIdle /\ AwareIdle /\ GameIdle

\* A player with no prior state gets PlayerFov::new(r).
NewPlayer ==
    /\ \E p \in PlayerIds \ DOMAIN players, r \in 0..MaxFovRadius :
          /\ players' = [q \in (DOMAIN players) \cup {p} |->
                            IF q = p THEN PlayerFov_new(r) ELSE players[q]]
          /\ new_radius' = [q \in (DOMAIN players) \cup {p} |->
                            IF q = p THEN r ELSE new_radius[q]]
    /\ UNCHANGED <<entities, last_call, ticks>>
    /\ UNCHANGED <<fovVars, gridVars, awareVars, gameVars>>

RegisterNext == NewPlayer \/ Recompute

SpecRegister == RegisterInit /\ [][RegisterNext]_vars

-----------------------------------------------------------------------------
(* One player's tick: recompute, then build_awareness on the result *)

\* recompute while no awareness list has been built yet.
TickRecompute == aw_pc = "idle" /\ Recompute

\* build_awareness for the player of the last recompute: its current_fov,
\* the same snapshot, the origin as observer position.
TickAwareness ==
    /\ aw_pc = "idle"
    /\ last_call.player # 0
    /\ \E margin \in 0..MaxMargin,
          order \in IterationOrders(DOMAIN last_call.entities) :
          /\ aw_margin' = margin
          /\ aware' = build_awareness(players[last_call.player].current_fov,
                                      last_call.entities, margin,
                                      last_call.origin, order)
    /\ aw_fov' = players[last_call.player].current_fov
    /\ aw_entities' = last_call.entities
    /\ aw_pos' = last_call.origin
    /\ aw_pc' = "done"
    /\ UNCHANGED <<fovVars, gridVars, playerVars, gameVars>>

TickNext == TickRecompute \/ TickAwareness

SpecTick == PlayerInit /\ [][TickNext]_vars

-----------------------------------------------------------------------------
(* A GameState under apply calls *)

GameInit ==
    /\ state \in GameWorlds
    /\ state_before = state
    /\ game_call = NoApply
    /\ issued = <<>>
    /\ steps = 0
    /\ FovIdle /\ GridIdle /\ PlayerIdle /\ AwareIdle

\* One apply call by any sender, present in the entity map or not.
Apply ==
    /\ steps < MaxSteps
    /\ \E entity_id \in (DOMAIN state.entities) \cup {AbsentId},
          action \in GameActions(state) :
          LET r == apply(state, entity_id, action)
          IN  /\ state' = r.state
              /\ game_call' = [entity_id |-> entity_id, action |-> action,
                               events |-> r.events]
              /\ issued' = IF action.kind = "SpawnPlayer"
                           THEN Append(issued, r.events[1].entity_id)
                           ELSE issued
    /\ state_before' = state
    /\ steps' = steps + 1
    /\ UNCHANGED <<fovVars, gridVars, playerVars, awareVars>>

SpecGame == GameInit /\ [][Apply]_vars

-----------------------------------------------------------------------------
(* The test world under apply calls whose Move actions come from players *)

\* Largest number of apply calls on the test world.
MaxWorldSteps == 6
\* Largest number of players spawned into the test world.
MaxWorldPlayers == 1

\* The ids of the Player entities of st.
PlayersOf(st) ==
    {id \in DOMAIN st.entities : st.entities[id].entity_type = "Player"}

\* The actions entity_id sends: Move only if it is a Player of st.
WorldActions(st, entity_id) ==
    (IF entity_id \in PlayersOf(st)
     THEN {[kind |-> "Move", direction |-> d] : d \in Directions}
     ELSE {})
    \cup (IF Cardinality(PlayersOf(st)) < MaxWorldPlayers
         THEN {[kind |-> "SpawnPlayer", name |-> n] : n \in PlayerNames}
         ELSE {})
    \cup {[kind |-> "SpawnAs", eid |-> entity_id], [kind |-> "SaveWorld"]}

WorldInit ==
    /\ state = create_test_world("test")
    /\ state_before = state
    /\ game_call = NoApply
    /\ issued = <<>>
    /\ steps = 0
    /\ FovIdle /\ GridIdle /\ PlayerIdle /\ AwareIdle

\* One apply call sent by a player, by the first tree or by an absent id.
WorldApply ==
    /\ steps < MaxWorldSteps
    /\ \E entity_id \in PlayersOf(state) \cup {1, AbsentId} :
          \E action \in WorldActions(state, entity_id) :
              LET r == apply(state, entity_id, action)
              IN  /\ state' = r.state
                  /\ game_call' = [entity_id |-> entity_id, action |-> action,
                                   events |-> r.events]
                  /\ issued' = IF action.kind = "SpawnPlayer"
                               THEN Append(issued, r.events[1].entity_id)
                               ELSE issued
    /\ state_before' = state
    /\ steps' = steps + 1
    /\ UNCHANGED <<fovVars, gridVars, playerVars, awareVars>>

SpecWorld == WorldInit /\ [][WorldApply]_vars

-----------------------------------------------------------------------------
(* Properties of compute_fov (SpecFov) *)

\* The brute-force disk of radius r around o.
Disk(o, r) ==
    {t \in Window(o, r) :
        (t[1] - o[1]) * (t[1] - o[1]) + (t[2] - o[2]) * (t[2] - o[2]) <= r * r}

\* C1: for every origin, radius >= 0 and opacity predicate, the set returned
\* by compute_fov contains the origin.
C1_OriginVisible == pc = "done" => origin \in visible

\* A call with every tile of the window opaque, the origin included.
C1_Witness ==
    /\ pc = "done" /\ radius >= 1
    /\ opaque = Window(origin, radius) /\ origin \in opaque
    /\ origin \in visible

\* C2: with no opaque tile the returned set is exactly the brute-force disk
\* {(dx, dy) : dx*dx + dy*dy <= R*R} around the origin.
C2_OpenFieldDisk ==
    (pc = "done" /\ opaque = {}) => visible = Disk(origin, radius)

\* Origin (0,0), radius 3, open field: (3,0) is visible and (4,0) is not.
C2_Witness ==
    /\ pc = "done" /\ opaque = {} /\ origin = <<0, 0>> /\ radius = 3
    /\ <<3, 0>> \in visible /\ <<4, 0>> \notin visible

\* C3: when exactly one tile T = origin + (a, b) is opaque, (a, b) # (0, 0),
\* T inside the radius disk and nearer than the last row, T is visible and no
\* tile origin + k*(a, b) with k >= 2 is.
C3_OpaqueVisibleBlocksBehind ==
    (pc = "done" /\ Cardinality(opaque) = 1) =>
        \A T \in opaque :
            LET a == T[1] - origin[1]
                b == T[2] - origin[2]
            IN  ( /\ T # origin
                  /\ a * a + b * b <= radius * radius
                  /\ Abs(a) < radius /\ Abs(b) < radius )
                => /\ T \in visible
                   /\ \A v \in visible :
                         \A k \in 2..(Abs(v[1] - origin[1]) + Abs(v[2] - origin[2]) + 2) :
                             v # <<origin[1] + k * a, origin[2] + k * b>>

\* Origin (0,0), opaque (2,0): (2,0) is visible, (3,0) is inside the radius
\* and hidden.
C3_Witness ==
    /\ pc = "done" /\ origin = <<0, 0>> /\ opaque = {<<2, 0>>} /\ radius >= 3
    /\ <<2, 0>> \in visible /\ <<3, 0>> \notin visible

\* C4: visibility is symmetric: if B is in compute_fov(A, radius, is_opaque)
\* then A is in compute_fov(B, radius, is_opaque).
C4_Symmetric ==
    pc = "done" => \A B \in visible : origin \in compute_fov(B, radius, opaque)

\* The recursive calls of the finished compute_fov call, as a set.
Calls == 
    LET log == compute_fov_calls(origin, radius, opaque)
    IN  {log[i] : i \in 1..Len(log)}

\* C23: runs of consecutive opaque cells in one row are merged: one
\* cast_light invocation issues a recursive call only at the start of a
\* blocked run, so it never issues calls at two adjacent cells of one row.
C23_RunsMerged ==
    pc = "done" =>
        \A c1, c2 \in Calls :
            ~( /\ c1.caller = c2.caller
               /\ c1.j = c2.j
               /\ c2.dx = c1.dx + 1 )

SlopeEq(a, b) == a.n * b.d = b.n * a.d

\* The world tile of the octant-local cell (dx, -j) of a cast_light call.
CellAt(params, j, dx) ==
    LET m == transform_octant(dx, -j, params.octant)
    IN  <<params.ox + m[1], params.oy + m[2]>>

\* Call c2 is issued by the same invocation and in the same row as c1, at
\* the first opaque cell after the blocked run that starts at c1 and ends at
\* column last, with at least one clear cell in between.
ResumesAfter(c1, last, c2) ==
    /\ c1.caller = c2.caller
    /\ c1.j = c2.j
    /\ c1.dx <= last
    /\ last < c2.dx - 1
    /\ \A dx \in c1.dx..last : CellAt(c1.caller, c1.j, dx) \in opaque
    /\ \A dx \in (last + 1)..(c2.dx - 1) : CellAt(c1.caller, c1.j, dx) \notin opaque

\* C24: a clear-to-opaque transition in a row that is not the last recurses
\* into the next row with end_slope narrowed to the blocking cell's left
\* slope, and after the opaque-to-clear transition the scan resumes with
\* start_slope equal to the right slope of the last opaque cell, so a later
\* block of the same row recurses with that narrowed start bound.
C24_TransitionsNarrowBounds ==
    pc = "done" =>
        /\ \A c \in Calls :
              /\ c.j < radius
              /\ c.params.row = c.j + 1
              /\ SlopeEq(c.params.end_slope, l_slope_of(c.dx, -c.j))
        /\ \A c1, c2 \in Calls :
              \A last \in (-radius)..0 :
                  ResumesAfter(c1, last, c2) =>
                      SlopeEq(c2.params.start_slope, r_slope_of(last, -c1.j))

SetMax(S) == CHOOSE x \in S : \A y \in S : y <= x

\* The depth of the cast_light invocation with parameters p among the calls
\* cs: 1 for a top-level call (row 1), one more than its caller otherwise.
RECURSIVE DepthIn(_, _)
DepthIn(cs, p) ==
    IF p.row = 1 THEN 1
    ELSE 1 + SetMax({DepthIn(cs, c.caller) : c \in {x \in cs : x.params = p}})

\* The early return of cast_light applies to p.
ReturnsAtOnce(p) == SlopeLt(p.start_slope, p.end_slope) \/ p.row > p.radius

NoLight == [visible |-> {}, calls |-> <<>>]

\* C25: compute_fov finishes, every recursive cast_light call has a
\* strictly larger row than its caller, the recursion depth never exceeds
\* the radius, and a call whose interval is empty (start_slope < end_slope)
\* or whose row exceeds the radius returns at once: it inserts nothing and
\* calls nothing.
C25_RecursionBounded ==
    pc = "done" =>
        LET cs == Calls
        IN  \A c \in cs :
                /\ c.params.row > c.caller.row
                /\ DepthIn(cs, c.params) <= radius
                /\ ReturnsAtOnce(c.params) =>
                      /\ cast_light(NoLight, opaque, c.params) = NoLight
                      /\ \A c2 \in cs : c2.caller # c.params

\* A call as deep as the radius and a call with an empty interval occurred.
C25_Witness ==
    /\ pc = "done"
    /\ radius >= 2
    /\ LET cs == Calls
       IN  /\ \E c \in cs : DepthIn(cs, c.params) = radius
           /\ \E c \in cs : SlopeLt(c.params.start_slope, c.params.end_slope)

\* C26: every visible tile lies in the circular radius: its offset
\* (dx, dy) from the origin satisfies dx*dx + dy*dy <= radius*radius.
C26_VisibleWithinCircle ==
    pc = "done" =>
        \A t \in visible :
            (t[1] - origin[1]) * (t[1] - origin[1])
            + (t[2] - origin[2]) * (t[2] - origin[2]) <= radius * radius

\* An unobstructed view whose square window has corners beyond the circle.
C26_Witness ==
    /\ pc = "done"
    /\ radius >= 2
    /\ opaque = {}
    /\ <<origin[1] + radius, origin[2]>> \in visible
    /\ <<origin[1] + radius, origin[2] + radius>> \notin visible

\* The tiles of the last row (row = radius) that lie inside the circle:
\* the four tiles at distance radius on the axes.
LastRowInCircle(o, r) ==
    {<<o[1] + r, o[2]>>, <<o[1] - r, o[2]>>, <<o[1], o[2] + r>>, <<o[1], o[2] - r>>}

\* C27: the last row never spawns a recursive call: no call is issued from
\* row = radius and none has row = radius + 1, while an opaque cell of the
\* last row that lies inside the circle is still inserted as visible.
C27_LastRowNeverRecurses ==
    pc = "done" =>
        /\ \A c \in Calls : c.j # radius /\ c.params.row # radius + 1
        /\ \A t \in LastRowInCircle(origin, radius) :
              opaque = {t} => t \in visible

\* A lone opaque tile of the last row was seen and nothing was called.
C27_Witness ==
    /\ pc = "done"
    /\ radius >= 2
    /\ opaque = {<<origin[1], origin[2] - radius>>}
    /\ <<origin[1], origin[2] - radius>> \in visible
    /\ Calls = {}

\* C31: occluders only remove visibility: for a fixed origin and radius,
\* the visible set computed with the opaque set T is a subset of the one
\* computed with any S \subseteq T.  Stated one tile at a time: removing
\* any one opaque tile loses no visible tile (the input families are closed
\* under removal, so chains of removals reach every subset).
C31_OccludersOnlyRemove ==
    pc = "done" =>
        \A t \in opaque :
            visible \subseteq compute_fov(origin, radius, opaque \ {t})

\* max(|dx|, |dy|) of tile t from o.
Chebyshev(o, t) ==
    IF Abs(t[1] - o[1]) > Abs(t[2] - o[2])
    THEN Abs(t[1] - o[1]) ELSE Abs(t[2] - o[2])

\* The tiles on or beyond the last row whose opacity is changed: the ring of
\* the last row and the tiles of CastTiles beyond it.
OuterTiles(o, r) ==
    {t \in Window(o, r) \cup CastTiles(o) : Chebyshev(o, t) >= r}

\* S with the opacity of tile t changed.
Toggle(S, t) == IF t \in S THEN S \ {t} ELSE S \cup {t}

\* C32: opaque tiles on or beyond the last row do not affect the result:
\* changing the opacity of a tile with max(|dx|, |dy|) >= radius from the
\* origin leaves compute_fov's visible set unchanged.
C32_OuterOpacityIrrelevant ==
    pc = "done" =>
        \A t \in OuterTiles(origin, radius) :
            compute_fov(origin, radius, Toggle(opaque, t)) = visible

\* An opaque tile of the last row was seen, with another opaque tile nearer
\* to the origin that did block tiles of the last row.
C32_Witness ==
    /\ pc = "done"
    /\ radius >= 2
    /\ \E t, u \in opaque :
          /\ Chebyshev(origin, t) = radius /\ t \in visible
          /\ Chebyshev(origin, u) < radius
    /\ \E h \in Disk(origin, radius) : h \notin visible

-----------------------------------------------------------------------------
(* Properties of VisibilityGrid (SpecGrid) *)

\* C5: a tile that once read Visible or Remembered never reads Unexplored
\* again, whatever sets update is called with.
C5_NeverUnexploredAgain ==
    [][\A t \in GridTiles :
          get(grid, t) # "Unexplored" => get(grid', t) # "Unexplored"]_vars

\* Tile (1,2) was seen, left the visible set, and stays Remembered across a
\* further update({}).
C5_Witness ==
    /\ updates >= 3 /\ fov_set = {}
    /\ get(grid_before, <<1, 2>>) = "Remembered"
    /\ get(grid, <<1, 2>>) = "Remembered"

\* C6: after update(visible_set) a tile of the set is Visible; a tile that was
\* Visible and is absent from the set is Remembered; a tile that was
\* Remembered or Unexplored and is absent keeps its state.
C6_UpdateNetEffect ==
    updates > 0 =>
        \A t \in GridTiles :
            /\ t \in fov_set => get(grid, t) = "Visible"
            /\ (t \notin fov_set /\ get(grid_before, t) = "Visible")
                  => get(grid, t) = "Remembered"
            /\ (t \notin fov_set /\ get(grid_before, t) \in {"Remembered", "Unexplored"})
                  => get(grid, t) = get(grid_before, t)

\* One update in which a Remembered tile entered the set, a Visible tile
\* left it and an Unexplored tile stayed outside.
C6_Witness ==
    /\ updates > 0
    /\ \E t \in fov_set : get(grid_before, t) = "Remembered"
    /\ \E t \in GridTiles \ fov_set :
          get(grid_before, t) = "Visible" /\ get(grid, t) = "Remembered"
    /\ \E t \in GridTiles \ fov_set :
          get(grid_before, t) = "Unexplored" /\ get(grid, t) = "Unexplored"

\* The transitions a tile may make across one update.
AllowedTransitions ==
    { <<"Unexplored", "Unexplored">>, <<"Unexplored", "Visible">>,
      <<"Visible", "Visible">>, <<"Visible", "Remembered">>,
      <<"Remembered", "Visible">>, <<"Remembered", "Remembered">> }

\* C7: across any single update every tile makes one of the allowed
\* transitions; never Unexplored -> Remembered, never Visible -> Unexplored.
C7_AllowedTransitionsOnly ==
    [][\A t \in GridTiles :
          <<get(grid, t), get(grid', t)>> \in AllowedTransitions]_vars

\* One update took a Remembered tile to Visible and a Visible tile to
\* Remembered.
C7_Witness ==
    /\ updates >= 3
    /\ \E t \in GridTiles :
          get(grid_before, t) = "Remembered" /\ get(grid, t) = "Visible"
    /\ \E t \in GridTiles :
          get(grid_before, t) = "Visible" /\ get(grid, t) = "Remembered"

\* C12: the set of stored tile entries of a VisibilityGrid grows
\* monotonically: no update removes an entry, so the entries after a call are
\* a superset of the entries before it.
C12_EntriesGrowMonotonically ==
    [][(DOMAIN grid) \subseteq (DOMAIN grid')]_vars

\* An update with a set disjoint from the stored entries kept all of them and
\* added new ones.
C12_Witness ==
    /\ updates >= 2
    /\ DOMAIN grid_before # {}
    /\ fov_set # {} /\ fov_set \cap DOMAIN grid_before = {}
    /\ DOMAIN grid = (DOMAIN grid_before) \cup fov_set

-----------------------------------------------------------------------------
(* Properties of PlayerFov (SpecPlayer) *)

\* Positions of the trees of a snapshot.
TreePositions(ents) ==
    {ents[i].position : i \in {k \in DOMAIN ents : ents[k].entity_type = "Tree"}}

\* C8: after recompute(origin, entities) the player's current_fov is exactly
\* the shadowcast result for that origin, the player's own fov_radius and the
\* snapshot's opaque set, and every tile of it, the origin included, reads
\* Visible in the player's grid.
C8_RecomputeReplacesAndUpdates ==
    last_call.player # 0 =>
        LET pf == players[last_call.player]
        IN  /\ pf.current_fov = compute_fov(last_call.origin, pf.fov_radius,
                                            TreePositions(last_call.entities))
            /\ last_call.origin \in pf.current_fov
            /\ \A t \in pf.current_fov : get(pf.visibility, t) = "Visible"

\* A recompute behind a tree that hides a tile of the disk, by a player whose
\* previous visible set held tiles the new one lacks.
C8_Witness ==
    /\ last_call.player # 0
    /\ LET pf == players[last_call.player]
       IN  /\ TreePositions(last_call.entities) # {}
           /\ Disk(last_call.origin, pf.fov_radius) \ pf.current_fov # {}
           /\ \E t \in DOMAIN pf.visibility : pf.visibility[t] = "Remembered"
           /\ get(pf.visibility, last_call.origin) = "Visible"

\* C14: FOV passes of different players are independent: a recompute changes
\* only the PlayerFov it is called on (the snapshot, that player's fov_radius
\* and every other player's PlayerFov are unchanged), and the result is the
\* one recompute gives from that player's own previous state, whatever the
\* other players did in between.
C14_PlayersIndependent ==
    [][(players' # players \/ last_call' # last_call) =>
          LET p == last_call'.player
          IN  /\ entities' = entities
              /\ \A q \in PlayerIds \ {p} : players'[q] = players[q]
              /\ players'[p].fov_radius = players[p].fov_radius
              /\ players'[p] = recompute(players[p], last_call'.origin,
                                         last_call'.entities)]_vars

\* Both players have recomputed, the second after the first, with different
\* results, and the first one's state is still in place.
C14_Witness ==
    /\ ticks >= 2 /\ last_call.player = 2
    /\ players[1].current_fov # {} /\ players[2].current_fov # {}
    /\ players[1].current_fov # players[2].current_fov
    /\ \A t \in players[1].current_fov : get(players[1].visibility, t) = "Visible"
    /\ players[2].visibility # players[1].visibility

-----------------------------------------------------------------------------
(* Properties of compute_fov_from_entities (SpecEntities) *)

\* The snapshots that differ from ents by one moved Player entity or by one
\* added Player entity (id 9), the positions taken around o.
PlayerVariants(ents, o) ==
    {[ents EXCEPT ![i].position = pos] :
        i \in {k \in DOMAIN ents : ents[k].entity_type = "Player"},
        pos \in Window(o, 1)}
    \cup {[k \in (DOMAIN ents) \cup {9} |->
              IF k = 9 THEN Entity(pos, "Eve", "Player") ELSE ents[k]] :
          pos \in Window(o, 1)}

\* C16: the opaque set used by compute_fov_from_entities is exactly the set
\* of positions of the snapshot's trees: a lone tree on an axis through the
\* origin, nearer than the radius, is visible and hides the tile directly
\* behind it, and adding or moving Player entities never changes the
\* computed visible set.
C16_OpaqueSetIsTrees ==
    pc = "done" =>
        /\ opaque = TreePositions(entities)
        /\ visible = compute_fov(origin, radius, TreePositions(entities))
        /\ \A v \in PlayerVariants(entities, origin) :
              compute_fov_from_entities(origin, radius, v) = visible
        /\ \A T \in TreePositions(entities) :
              LET a == T[1] - origin[1]
                  b == T[2] - origin[2]
              IN  ( /\ TreePositions(entities) = {T}
                    /\ (a = 0 \/ b = 0) /\ T # origin
                    /\ Abs(a) + Abs(b) < radius )
                  => /\ T \in visible
                     /\ <<T[1] + (IF a > 0 THEN 1 ELSE IF a < 0 THEN -1 ELSE 0),
                          T[2] + (IF b > 0 THEN 1 ELSE IF b < 0 THEN -1 ELSE 0)>>
                            \notin visible

\* The tree at (3,0) is seen from (0,0) and hides (4,0), while the Players
\* at (1,0) and (0,-1) hide nothing.
C16_Witness ==
    /\ pc = "done" /\ origin = <<0, 0>> /\ radius = 4
    /\ DOMAIN entities = {1, 3, 4}
    /\ <<3, 0>> \in visible /\ <<4, 0>> \notin visible
    /\ <<2, 0>> \in visible /\ <<0, -2>> \in visible /\ <<0, -4>> \in visible

-----------------------------------------------------------------------------
(* Properties of build_awareness (SpecAware) *)

\* The entity ids of the records of a result.
AwareIds(result) == {result[i].entity_id : i \in 1..Len(result)}

\* Outside the square window of half-width DEFAULT_FOV_RADIUS + margin.
OutsideWindow(p, margin, observer) ==
    \/ Abs(p[1] - observer[1]) > DEFAULT_FOV_RADIUS + margin
    \/ Abs(p[2] - observer[2]) > DEFAULT_FOV_RADIUS + margin

\* C9: an entity whose position is in the visible set is in the result,
\* tagged Sight, for every margin and observer position, however far it is.
C9_VisibleEntityIncluded ==
    aw_pc = "done" =>
        \A id \in DOMAIN aw_entities :
            aw_entities[id].position \in aw_fov
            => \E i \in 1..Len(aware) :
                  aware[i] = [entity_id |-> id,
                              position |-> aw_entities[id].position,
                              source |-> "Sight"]

\* Margin 0, and an entity in the visible set that lies outside the window.
C9_Witness ==
    /\ aw_pc = "done" /\ aw_margin = 0
    /\ \E id \in DOMAIN aw_entities :
          /\ aw_entities[id].position \in aw_fov
          /\ OutsideWindow(aw_entities[id].position, aw_margin, aw_pos)
          /\ id \in AwareIds(aware)

\* C28: every record returned by build_awareness is tagged Sight, carries
\* the id of a snapshot entity and that entity's snapshot position, no id
\* appears twice, and there are at most as many records as entities.
C28_RecordsWellFormed ==
    aw_pc = "done" =>
        /\ \A i \in 1..Len(aware) :
              /\ aware[i].source = "Sight"
              /\ aware[i].entity_id \in DOMAIN aw_entities
              /\ aware[i].position = aw_entities[aware[i].entity_id].position
        /\ \A i, k \in 1..Len(aware) :
              aware[i].entity_id = aware[k].entity_id => i = k
        /\ Len(aware) <= Cardinality(DOMAIN aw_entities)

\* Two entities standing on the same tile, visible and inside the margin
\* window, were returned as two records.
C28_Witness ==
    /\ aw_pc = "done"
    /\ Len(aware) = 2
    /\ aware[1].position = aware[2].position
    /\ aware[1].entity_id # aware[2].entity_id
    /\ aware[1].position \in aw_fov
    /\ in_margin_of(aware[1].position, aw_margin, aw_pos)

\* C10: an entity that is not in the visible set and whose |dx| or |dy| from
\* the observer exceeds 12 + margin is not in the result.
C10_OutsideExcluded ==
    aw_pc = "done" =>
        \A id \in DOMAIN aw_entities :
            ( /\ aw_entities[id].position \notin aw_fov
              /\ OutsideWindow(aw_entities[id].position, aw_margin, aw_pos) )
            => id \notin AwareIds(aware)

\* One entity outside the window on one axis only is left out while another
\* entity is reported.
C10_Witness ==
    /\ aw_pc = "done"
    /\ \E id \in DOMAIN aw_entities :
          /\ aw_entities[id].position \notin aw_fov
          /\ Abs(aw_entities[id].position[1] - aw_pos[1]) <= DEFAULT_FOV_RADIUS + aw_margin
          /\ Abs(aw_entities[id].position[2] - aw_pos[2]) > DEFAULT_FOV_RADIUS + aw_margin
          /\ id \notin AwareIds(aware)
    /\ Len(aware) >= 1

-----------------------------------------------------------------------------
(* Properties of PlayerFov::new (SpecRegister) *)

\* Tiles on which the grids are probed.
ProbeTiles == Window(<<0, 0>>, MaxFovRadius + 2)

\* C13: a player with no prior state starts from PlayerFov::new(radius):
\* get(tile) is Unexplored for every tile, current_fov is empty and
\* fov_radius is the supplied radius; get on any absent tile is Unexplored.
C13_NewPlayerStartsUnexplored ==
    [][ /\ \A p \in (DOMAIN players') \ (DOMAIN players) :
              /\ players'[p].current_fov = {}
              /\ players'[p].fov_radius = new_radius'[p]
              /\ \A t \in ProbeTiles :
                    get(players'[p].visibility, t) = "Unexplored"
        /\ \A p \in DOMAIN players' :
              \A t \in ProbeTiles \ DOMAIN players'[p].visibility :
                    get(players'[p].visibility, t) = "Unexplored" ]_vars

\* A player freshly created with radius >= 1 beside a player that has
\* already seen tiles.
C13_Witness ==
    \E p, q \in DOMAIN players :
        /\ players[p].current_fov = {} /\ DOMAIN players[p].visibility = {}
        /\ new_radius[p] >= 1 /\ players[p].fov_radius = new_radius[p]
        /\ players[q].current_fov # {}
        /\ \E t \in DOMAIN players[q].visibility :
              players[q].visibility[t] = "Remembered"

\* The tiles of ProbeTiles on which the grid of pf answers st.
TilesIn(pf, st) == {t \in ProbeTiles : get(pf.visibility, t) = st}

\* C30: from PlayerFov::new on, after any sequence of recompute calls, the
\* set of Visible tiles is exactly current_fov, and every other tile ever
\* seen is Remembered: a tile that was Visible or Remembered before a step
\* is Visible or Remembered after it, and is Visible only if it is in the
\* latest current_fov.
C30_GridMatchesCurrentFov ==
    /\ [](\A p \in DOMAIN players :
             /\ {t \in DOMAIN players[p].visibility :
                    players[p].visibility[t] = "Visible"} = players[p].current_fov
             /\ \A t \in DOMAIN players[p].visibility :
                   players[p].visibility[t] \in {"Visible", "Remembered"})
    /\ [][\A p \in DOMAIN players :
             \A t \in ProbeTiles \ TilesIn(players[p], "Unexplored") :
                 get(players'[p].visibility, t)
                     = IF t \in players'[p].current_fov
                       THEN "Visible" ELSE "Remembered"]_vars

\* After three recompute calls a player sees some tiles and remembers others.
C30_Witness ==
    /\ ticks >= 3
    /\ \E p \in DOMAIN players :
          /\ players[p].current_fov # {}
          /\ TilesIn(players[p], "Remembered") # {}
          /\ TilesIn(players[p], "Unexplored") # {}

-----------------------------------------------------------------------------
(* Properties of a player's tick (SpecTick) *)

\* C11: the margin window has half-width fov_radius + margin, fov_radius
\* being the radius the player's visible set was computed with: an entity
\* that is not in the visible set is in the result if and only if both |dx|
\* and |dy| from the observer are <= fov_radius + margin.
C11_MarginUsesPlayerRadius ==
    (aw_pc = "done" /\ last_call.player # 0) =>
        LET r == players[last_call.player].fov_radius
        IN  \A id \in DOMAIN aw_entities :
                aw_entities[id].position \notin aw_fov
                => ( id \in AwareIds(aware)
                     <=> /\ Abs(aw_entities[id].position[1] - aw_pos[1]) <= r + aw_margin
                         /\ Abs(aw_entities[id].position[2] - aw_pos[2]) <= r + aw_margin )

\* C29: the margin check compares against the fixed default radius 12: an
\* entity that is not in the visible set is still returned, tagged Sight,
\* whenever |dx| <= 12 + margin and |dy| <= 12 + margin from the observer,
\* whatever radius the player's visible set was computed with.
C29_MarginUsesDefaultRadius ==
    (aw_pc = "done" /\ last_call.player # 0) =>
        \A id \in DOMAIN aw_entities :
            ( /\ aw_entities[id].position \notin aw_fov
              /\ Abs(aw_entities[id].position[1] - aw_pos[1]) <= 12 + aw_margin
              /\ Abs(aw_entities[id].position[2] - aw_pos[2]) <= 12 + aw_margin )
            => \E i \in 1..Len(aware) :
                   aware[i] = AwareEntity(id, aw_entities[id].position)

\* An entity outside the visible set, on the edge of the window of half-width
\* 12 + margin around a player whose radius is smaller than 12, was returned.
C29_Witness ==
    /\ aw_pc = "done"
    /\ last_call.player # 0
    /\ \E id \in DOMAIN aw_entities :
          /\ aw_entities[id].position \notin aw_fov
          /\ Abs(aw_entities[id].position[1] - aw_pos[1]) = 12 + aw_margin
          /\ players[last_call.player].fov_radius < 12
          /\ id \in AwareIds(aware)

-----------------------------------------------------------------------------
(* Properties of move_entity and spawn_player (SpecGame) *)

\* q is the tile one step from p: Up y-1, Down y+1, Left x-1, Right x+1.
IsOneStep(p, q, direction) ==
    CASE direction = "Up" -> q[1] = p[1] /\ p[2] > I32_MIN /\ q[2] = p[2] - 1
      [] direction = "Down" -> q[1] = p[1] /\ p[2] < I32_MAX /\ q[2] = p[2] + 1
      [] direction = "Left" -> q[2] = p[2] /\ p[1] > I32_MIN /\ q[1] = p[1] - 1
      [] direction = "Right" -> q[2] = p[2] /\ p[1] < I32_MAX /\ q[1] = p[1] + 1

\* The last apply was Move(direction) sent by an entity of the map.
MovedBy(id, direction) ==
    /\ game_call.action.kind = "Move"
    /\ game_call.action.direction = direction
    /\ game_call.entity_id = id
    /\ id \in DOMAIN state_before.entities

\* The ids of the trees, and of all entities, one step from entity id.
TreesAhead(id, direction) ==
    {e \in DOMAIN state_before.entities :
        /\ state_before.entities[e].entity_type = "Tree"
        /\ IsOneStep(state_before.entities[id].position,
                     state_before.entities[e].position, direction)}
EntitiesAhead(id, direction) ==
    {e \in DOMAIN state_before.entities :
        IsOneStep(state_before.entities[id].position,
                  state_before.entities[e].position, direction)}

\* C17: move_entity rejects a move whose destination tile holds a Tree: the
\* whole game state is unchanged; a destination that holds only Player
\* entities does not block the move.
C17_TreeBlocksMove ==
    \A id \in DOMAIN state_before.entities, direction \in Directions :
        MovedBy(id, direction) =>
            /\ TreesAhead(id, direction) # {} => state = state_before
            /\ (EntitiesAhead(id, direction) # {} /\ TreesAhead(id, direction) = {})
                  => IsOneStep(state_before.entities[id].position,
                               state.entities[id].position, direction)

\* Player 1 at (5,5) was sent Right into the tree at (6,5) and stayed.
C17_Witness ==
    /\ MovedBy(1, "Right")
    /\ state_before.entities[1].position = <<5, 5>>
    /\ TreesAhead(1, "Right") = {2}
    /\ state.entities[1].position = <<5, 5>>

\* C18: move_entity on an id that is not in the entity map is a no-op: the
\* GameState (entities, id generator, world name) is equal before and after.
C18_MoveAbsentIsNoop ==
    (game_call.action.kind = "Move"
        /\ game_call.entity_id \notin DOMAIN state_before.entities)
    => /\ state = state_before
       /\ game_call.entity_id \notin DOMAIN state.entities

\* A Move for id 999 on a state that holds entities, after earlier calls.
C18_Witness ==
    /\ game_call.action.kind = "Move" /\ game_call.entity_id = AbsentId
    /\ steps >= 2 /\ DOMAIN state_before.entities # {}
    /\ state = state_before

\* Everything but the position of entity id is as before the last apply.
OnlyPositionChanged(id) ==
    /\ DOMAIN state.entities = DOMAIN state_before.entities
    /\ \A e \in (DOMAIN state.entities) \ {id} :
          state.entities[e] = state_before.entities[e]
    /\ state.entities[id].name = state_before.entities[id].name
    /\ state.entities[id].entity_type = state_before.entities[id].entity_type
    /\ state.entity_gen = state_before.entity_gen
    /\ state.world_name = state_before.world_name

\* C19 as stated: a move that is not blocked moves exactly the named entity
\* by one tile in the given direction and changes nothing else.
C19_MoveByOneTile ==
    \A id \in DOMAIN state_before.entities, direction \in Directions :
        (MovedBy(id, direction) /\ TreesAhead(id, direction) = {})
        => /\ IsOneStep(state_before.entities[id].position,
                        state.entities[id].position, direction)
           /\ OnlyPositionChanged(id)

\* The coordinate that direction changes is at the i32 limit on that side.
AtLimit(p, direction) ==
    CASE direction = "Up" -> p[2] = I32_MIN
      [] direction = "Down" -> p[2] = I32_MAX
      [] direction = "Left" -> p[1] = I32_MIN
      [] direction = "Right" -> p[1] = I32_MAX

\* C19, amended: a move that is not blocked moves exactly the named entity by
\* one tile in the given direction, or leaves it in place when its coordinate
\* is already at the i32 limit on that side, and changes nothing else.
C19_MoveByOneTileSaturating ==
    \A id \in DOMAIN state_before.entities, direction \in Directions :
        LET p == state_before.entities[id].position
            q == state.entities[id].position
        IN  MovedBy(id, direction) =>
              /\ OnlyPositionChanged(id)
              /\ (~AtLimit(p, direction) /\ TreesAhead(id, direction) = {})
                    => IsOneStep(p, q, direction)
              /\ AtLimit(p, direction) => q = p

\* Player 5 moved from the spawn tile (10,10) to (9,10) in a world of at
\* least five entities, after an earlier call.
C19_Witness ==
    /\ MovedBy(5, "Left")
    /\ state_before.entities[5].position = <<10, 10>>
    /\ state.entities[5].position = <<9, 10>>
    /\ steps >= 2
    /\ Cardinality(DOMAIN state.entities) >= 5

\* C20: the ids returned by spawn_player are pairwise distinct, each new id
\* is afterwards in the entity map as a Player at (10,10) with the given
\* name, and no existing entity is overwritten or removed.
C20_SpawnIdsUnique ==
    /\ \A i, j \in 1..Len(issued) : i # j => issued[i] # issued[j]
    /\ game_call.action.kind = "SpawnPlayer" =>
          LET id == game_call.events[1].entity_id
          IN  /\ id = issued[Len(issued)]
              /\ id \notin DOMAIN state_before.entities
              /\ DOMAIN state.entities = (DOMAIN state_before.entities) \cup {id}
              /\ state.entities[id] =
                    Entity(<<10, 10>>, game_call.action.name, "Player")
              /\ \A e \in DOMAIN state_before.entities :
                    state.entities[e] = state_before.entities[e]

\* Three spawns in a row on a world that already held five entities.
C20_Witness ==
    /\ Len(issued) = 3
    /\ game_call.action.kind = "SpawnPlayer"
    /\ Cardinality(DOMAIN state.entities) = 8
    /\ state.entities[8].name = "Bob" /\ state.entities[6].name = "Alice"

\* C22: apply returns exactly one event determined by the action, in every
\* state: Move returns EntityMoved for the sender (also when the sender does
\* not exist or the move was blocked), SpawnPlayer returns PlayerSpawned with
\* the id of the new entity, SpawnAs(e) returns SpawnAsRequested for e,
\* SaveWorld returns SaveRequested; SpawnAs and SaveWorld leave the game
\* state unchanged.
C22_OneEventPerAction ==
    game_call.action.kind # "None" =>
        /\ Len(game_call.events) = 1
        /\ game_call.action.kind = "Move" =>
              game_call.events[1] =
                 [kind |-> "EntityMoved", entity_id |-> game_call.entity_id]
        /\ game_call.action.kind = "SpawnPlayer" =>
              /\ game_call.events[1].kind = "PlayerSpawned"
              /\ DOMAIN game_call.events[1] = {"kind", "entity_id"}
              /\ game_call.events[1].entity_id \in DOMAIN state.entities
              /\ state.entities[game_call.events[1].entity_id] =
                    Entity(<<10, 10>>, game_call.action.name, "Player")
              /\ state.entity_gen # state_before.entity_gen
        /\ game_call.action.kind = "SpawnAs" =>
              /\ game_call.events[1] =
                    [kind |-> "SpawnAsRequested", entity_id |-> game_call.action.eid]
              /\ state = state_before
        /\ game_call.action.kind = "SaveWorld" =>
              /\ game_call.events[1] = [kind |-> "SaveRequested"]
              /\ state = state_before

\* A Move into a tree left the state as it was and still reported
\* EntityMoved for the sender.
C22_Witness ==
    /\ MovedBy(1, "Right") /\ TreesAhead(1, "Right") # {}
    /\ state = state_before
    /\ game_call.events = <<[kind |-> "EntityMoved", entity_id |-> 1]>>
    /\ steps >= 2

-----------------------------------------------------------------------------
(* Properties of the test world (SpecWorld) *)

\* C33: from create_test_world on, under apply calls whose Move actions are
\* sent only by Player entities, no Player entity stands on the tile of a
\* movement-blocking entity (a Tree).
C33_PlayersNeverOnTrees ==
    \A p, t \in DOMAIN state.entities :
        ( /\ state.entities[p].entity_type = "Player"
          /\ blocks_movement(state.entities[t].entity_type) )
        => state.entities[p].position # state.entities[t].position

\* A player walked from (10,10) up to (10,6), was sent Up into the tree at
\* (10,5) and stayed.
C33_Witness ==
    \E p \in DOMAIN state_before.entities :
        /\ MovedBy(p, "Up")
        /\ state_before.entities[p].entity_type = "Player"
        /\ state_before.entities[p].position = <<10, 6>>
        /\ TreesAhead(p, "Up") # {}
        /\ state.entities[p].position = <<10, 6>>

====
